---- MODULE Spec2Model ----
(***************************************************************************)
(* gh-jira-issue-sync: one-directional reconciliation of GitHub issues     *)
(* (and their comments) into Jira issues.                                  *)
(*                                                                         *)
(* The model follows the issue reconciler of                               *)
(* src/internal/jira/issue/issue.go (Compare, DidIssueChange, UpdateIssue, *)
(* CreateIssue), the comment reconciler of src/unnamed/part_002            *)
(* (Reconcile, Compare, UpdateComment), the Jira client of                 *)
(* src/internal/jira/auth/auth.go (package jira), the command loop of      *)
(* src/unnamed/part_008 (RootCmd) and the request wrappers of              *)
(* src/unnamed/part_007, src/unnamed/part_009 and src/github/github.go.    *)
(***************************************************************************)
EXTENDS Integers, Sequences, FiniteSets, TLC

VARIABLES
    ghIssues,    \* the GitHub repository's issues, in the order ListIssues returns them
    store,       \* the Jira project: a sequence of target issues, an issue's key is its index
    jiraIssues,  \* the target list jiraClient.ListIssues returned to the current pass
    pc,          \* "idle" (about to run a pass), "loop" (inside Compare's loop),
                 \* "sleep" (waiting for the daemon period), "exited", "crashed"
    idx,         \* index in ghIssues of the next source issue of the loop
    pass,        \* number of passes started
    now,         \* the clock read by time.Now()
    calls,       \* the client calls made during the current pass, in order
    handled,     \* one record per source issue the loop of the current pass has processed
    passErr,     \* what the last pass returned to RootCmd ("running" while in a pass)
    dryRun,      \* cfg.IsDryRun(): the tool was started without --confirm
    period,      \* cfg.GetDaemonPeriod(): the daemon period, 0 for a single run
    since,       \* the `since` parameter as the configuration file holds it
    timer,       \* the time at which the timer of time.After fires
    clean,       \* history: the last pass returned nil, none of its calls failed and
                 \* none of its source issues ended in an error
    retry        \* the API request a request wrapper is carrying out

\* The variables of the command and of its passes.
passVars == <<ghIssues, store, jiraIssues, pc, idx, pass, now, calls, handled, passErr,
              dryRun, period, since, timer, clean>>

vars == <<passVars, retry>>

----------------------------------------------------------------------------
\* Bounds of the model.

\* Number of target issues the Jira project holds before the first pass.
MaxTargets == 2
\* Number of reconciliation passes RootCmd's loop runs.
MaxPasses == 2
\* Length of the daemon period, in ticks of the clock.
Period == 2

\* GitHub issue IDs of the repository.
IssueIds == {1, 2}

----------------------------------------------------------------------------
\* Loosely typed custom-field values (tcontainer.MarshalMap values, interface{}).

Missing == [t |-> "missing", n |-> 0, s |-> "", l |-> <<>>]
Num(x) == [t |-> "float64", n |-> x, s |-> "", l |-> <<>>]
Str(x) == [t |-> "string", n |-> 0, s |-> x, l |-> <<>>]
Strs(x) == [t |-> "[]string", n |-> 0, s |-> "", l |-> x]
Anys(x) == [t |-> "[]interface{}", n |-> 0, s |-> "", l |-> x]

\* strconv.FormatInt(id, 10) for the IDs of the model.
FormatInt(n) ==
    CASE n = 0 -> "0" [] n = 1 -> "1" [] n = 2 -> "2" [] n = 3 -> "3"
      [] n = 4 -> "4" [] OTHER -> "big"

\* The number a field value denotes, -1 when it denotes none.
Denotes(v) ==
    IF v.t = "float64" THEN v.n
    ELSE IF v.t = "string" /\ \E n \in 0..4 : FormatInt(n) = v.s
         THEN CHOOSE n \in 0..4 : FormatInt(n) = v.s
         ELSE -1

\* MarshalMap.String(key): the value and whether err == nil.
UnknownsString(v) == [ok |-> v.t = "string", s |-> v.s]

----------------------------------------------------------------------------
\* Text is a sequence of characters.

Space == " "
Hyphen == "-"
Newline == "\n"

RECURSIVE SeqToSet(_)
SeqToSet(s) == IF s = <<>> THEN {} ELSE {Head(s)} \cup SeqToSet(Tail(s))

\* strings.ReplaceAll(label, " ", "-") applied to every label.
githubLabelsToStrSlice(ghLabels) ==
    [i \in DOMAIN ghLabels |->
        [k \in DOMAIN ghLabels[i] |->
            IF ghLabels[i][k] = Space THEN Hyphen ELSE ghLabels[i][k]]]

----------------------------------------------------------------------------
\* Texts.  A text is a sequence of tokens followed by fill further bytes of
\* plain text (no newline, no part of a literal).  A token is one of the
\* literals of the header format and patterns, a character, or a word of an
\* input written with none of the literals' characters.

Txt(head, fill) == [head |-> head, fill |-> fill]

RECURSIVE TokensLen(_)
TokensLen(h) == IF h = <<>> THEN 0 ELSE Len(Head(h)) + TokensLen(Tail(h))

\* len(s), in bytes
ByteLen(t) == TokensLen(t.head) + t.fill

\* The longest prefix of the tokens h that fits in max bytes.
RECURSIVE Fit(_, _)
Fit(h, max) ==
    IF h = <<>> \/ Len(Head(h)) > max THEN <<>>
    ELSE <<Head(h)>> \o Fit(Tail(h), max - Len(Head(h)))

\* s[:max] of a text longer than max.  A cut that falls inside a token leaves
\* bytes that are no token any more: they count as fill.
Slice(t, max) ==
    LET kept == Fit(t.head, max)
    IN Txt(kept, max - TokensLen(kept))

DigitChars == <<"0", "1", "2", "3", "4", "5", "6", "7", "8", "9">>

IsDigit(tok) == \E d \in DOMAIN DigitChars : DigitChars[d] = tok

DigitVal(tok) == (CHOOSE d \in DOMAIN DigitChars : DigitChars[d] = tok) - 1

\* fmt.Sprintf("%d", n) for n >= 0
RECURSIVE Digits(_)
Digits(n) ==
    IF n < 10 THEN <<DigitChars[n + 1]>>
    ELSE Append(Digits(n \div 10), DigitChars[(n % 10) + 1])

\* math.MaxInt64 in decimal
MaxInt64 ==
    <<"9", "2", "2", "3", "3", "7", "2", "0", "3", "6", "8", "5", "4", "7", "7", "5",
      "8", "0", "7">>

RECURSIVE StripZeros(_)
StripZeros(d) == IF Len(d) > 1 /\ Head(d) = "0" THEN StripZeros(Tail(d)) ELSE d

\* a <= b for two numerals of the same length
RECURSIVE NumeralLeq(_, _)
NumeralLeq(a, b) ==
    IF a = <<>> THEN TRUE
    ELSE IF DigitVal(Head(a)) < DigitVal(Head(b)) THEN TRUE
    ELSE IF DigitVal(Head(a)) > DigitVal(Head(b)) THEN FALSE
    ELSE NumeralLeq(Tail(a), Tail(b))

\* strconv.Atoi of a run of digits: whether err == nil, and the int, written
\* as its decimal numeral (an int holds 64 bits).
Atoi(d) ==
    LET n == StripZeros(d)
    IN IF Len(n) < Len(MaxInt64) \/ (Len(n) = Len(MaxInt64) /\ NumeralLeq(n, MaxInt64))
       THEN [ok |-> TRUE, n |-> n]
       ELSE [ok |-> FALSE, n |-> <<>>]

----------------------------------------------------------------------------
\* Comment headers.

LitID == "Comment [(ID "
LitIDEnd == ")|"
LitFrom == "] from GitHub user ["
LitBar == "|"
LitName == "] ("
LitAt == ") at "
LitNoName == "] at "
LitBody == ":\n\n"

\* '.' matches every character but the newline.
HasNewline(tok) == tok \in {Newline, LitBody}

Clean(h, i, j) == \A k \in i..j : ~HasNewline(h[k])

Occ(tok, h) == {p \in DOMAIN h : h[p] = tok}

\* The index after the run of digits that starts at index i.
RECURSIVE DigitsEnd(_, _)
DigitsEnd(h, i) == IF i <= Len(h) /\ IsDigit(h[i]) THEN DigitsEnd(h, i + 1) ELSE i

\* The ID pattern without its anchor: the header is found wherever it begins.
jCommentIDRegexAnywhere(body) ==
    LET h == body.head
        at == {p \in Occ(LitID, h) :
                  LET e == DigitsEnd(h, p + 1)
                  IN e > p + 1 /\ e <= Len(h) /\ h[e] = LitIDEnd}
    IN IF at # {}
       THEN LET p == CHOOSE x \in at : \A y \in at : x <= y
                e == DigitsEnd(h, p + 1)
            IN [ok |-> TRUE, digits |-> SubSeq(h, p + 1, e - 1), end |-> e]
       ELSE [ok |-> FALSE, digits |-> <<>>, end |-> 0]

\* jCommentIDRegex.FindStringSubmatch(body): ^Comment \[\(ID (\d+)\)\|
\* ok is MatchString(body); digits is matches[1]; end the index of ")|".
jCommentIDRegex(body) ==
    LET h == body.head
        e == DigitsEnd(h, 2)
    IN IF Len(h) >= 3 /\ h[1] = LitID /\ e > 2 /\ e <= Len(h) /\ h[e] = LitIDEnd
       THEN [ok |-> TRUE, digits |-> SubSeq(h, 2, e - 1), end |-> e]
       ELSE [ok |-> FALSE, digits |-> <<>>, end |-> 0]

\* The ways the rest of jCommentRegex matches behind the ID: the indexes of
\*   "] from GitHub user [", "|", "] (", ") at " and ":\n\n"
\* with (.+) groups that are not empty and no newline outside ":\n\n".
HeaderSplits(body, e) ==
    LET h == body.head
    IN {v \in Occ(LitFrom, h) \X Occ(LitBar, h) \X Occ(LitName, h) \X Occ(LitAt, h)
               \X Occ(LitBody, h) :
          /\ e < v[1] /\ Clean(h, e + 1, v[1] - 1)
          /\ v[1] + 1 < v[2] /\ Clean(h, v[1] + 1, v[2] - 1)
          /\ v[2] < v[3] /\ Clean(h, v[2] + 1, v[3] - 1)
          /\ v[3] + 1 < v[4] /\ Clean(h, v[3] + 1, v[4] - 1)
          /\ v[4] + 1 < v[5] /\ Clean(h, v[4] + 1, v[5] - 1)
          /\ (Len(h) - v[5]) + body.fill > 0 /\ Clean(h, v[5] + 1, Len(h))}

\* Leftmost-first matching: .*? takes the earliest end, (.+) the latest, the
\* earlier choice deciding before the later one.
Preferred(v, w) ==
    \/ v[1] < w[1]
    \/ v[1] = w[1] /\ v[2] > w[2]
    \/ v[1] = w[1] /\ v[2] = w[2] /\ v[3] < w[3]
    \/ v[1] = w[1] /\ v[2] = w[2] /\ v[3] = w[3] /\ v[4] > w[4]
    \/ v[1] = w[1] /\ v[2] = w[2] /\ v[3] = w[3] /\ v[4] = w[4] /\ v[5] >= w[5]

\* jCommentRegex.FindStringSubmatch(body): ok is "not nil"; fields[1] the ID
\* digits, fields[2] the login, fields[3] the name, fields[4] the date,
\* fields[5] the body.
jCommentRegex(body) ==
    LET h == body.head
        id == jCommentIDRegex(body)
        splits == IF id.ok THEN HeaderSplits(body, id.end) ELSE {}
    IN IF splits = {}
       THEN [ok |-> FALSE, id |-> <<>>, login |-> <<>>, name |-> <<>>, date |-> <<>>,
             body |-> Txt(<<>>, 0)]
       ELSE LET v == CHOOSE x \in splits : \A w \in splits : Preferred(x, w)
            IN [ok |-> TRUE, id |-> id.digits,
                login |-> SubSeq(h, v[1] + 1, v[2] - 1),
                name |-> SubSeq(h, v[3] + 1, v[4] - 1),
                date |-> SubSeq(h, v[4] + 1, v[5] - 1),
                body |-> Txt(SubSeq(h, v[5] + 1, Len(h)), body.fill)]

\* maxBodyLength = 1 << 15
maxBodyLength == 32768

\* The URL of a comment or a user, and the formatted creation time.
HTMLURL == "url"
CreatedAt == "date"

\* The header jiraClient.CreateComment and UpdateComment format for a GitHub
\* comment c whose author has display name c.name:
\*   "Comment [(ID %d)|%s]" " from GitHub user [%s|%s]" " (%s)" " at %s:\n\n"
HeaderOf(c) ==
    <<LitID>> \o Digits(c.id) \o <<LitIDEnd, HTMLURL, LitFrom, c.login, LitBar, HTMLURL>>
    \o (IF c.name # "" THEN <<LitName, c.name, LitAt>> ELSE <<LitNoName>>)
    \o <<CreatedAt, LitBody>>

\* The body they send: the header, the body of the comment, cut to
\* maxBodyLength bytes.
FormatBody(c) ==
    LET body == Txt(HeaderOf(c) \o c.body.head, c.body.fill)
    IN IF ByteLen(body) > maxBodyLength THEN Slice(body, maxBodyLength) ELSE body

----------------------------------------------------------------------------
\* Client calls.  A fault names the call of a step that fails: the n-th call
\* of operation op made while one source issue is processed.

NoPayload == [none |-> TRUE]

Call(op, src, key, payload, ok) ==
    [op |-> op, src |-> src, key |-> key, payload |-> payload, ok |-> ok]

NoFault == [op |-> "none", n |-> 0]

FaultOps == {"UpdateIssue", "CreateIssue", "GetIssue", "ListComments",
             "GetUser", "AddComment", "PutComment"}

Faults == {NoFault} \cup [op : FaultOps, n : {1}]

\* The accumulator threaded through the calls of one step: the Jira project,
\* the call log, the error returned so far ("" for nil), whether the process
\* panicked, the length the call log had when the step began, the keys of
\* the target issues the comment reconciler was run against, and what Compare
\* was given and returned in each of these runs.
Acc(st, cl) ==
    [st |-> st, calls |-> cl, err |-> "", crashed |-> FALSE, base |-> Len(cl),
     recon |-> <<>>, cmp |-> <<>>]

CountOp(acc, op) ==
    Cardinality({k \in (acc.base + 1)..Len(acc.calls) : acc.calls[k].op = op})

Fails(acc, op, fault) == fault.op = op /\ CountOp(acc, op) + 1 = fault.n

Logged(acc, c) == [acc EXCEPT !.calls = Append(@, c)]

Failed(acc, c, e) == [acc EXCEPT !.calls = Append(@, c), !.err = e]

----------------------------------------------------------------------------
\* Jira client, comments (package jira of src/internal/jira/auth/auth.go).

\* A CreateComment that posts the comment in a dry run too.
JiraCreateCommentSending(acc, src, key, c, fault) ==
    IF Fails(acc, "GetUser", fault)
    THEN Failed(acc, Call("GetUser", src, key, NoPayload, FALSE), "getting GitHub user")
    ELSE LET a1 == Logged(acc, Call("GetUser", src, key, NoPayload, TRUE))
             body == FormatBody(c)
             req == [id |-> Len(a1.st[key].comments) + 1, body |-> body]
         IN IF Fails(a1, "AddComment", fault)
            THEN Failed(a1, Call("AddComment", src, key, req, FALSE), "creating Jira comment")
            ELSE [Logged(a1, Call("AddComment", src, key, req, TRUE))
                    EXCEPT !.st[key].comments = Append(@, req)]

\* jiraClient.CreateComment: GetUser, format the body, POST the comment; in a
\* dry run the comment is printed and no request is made.
JiraCreateComment(acc, src, key, c, fault) ==
    IF Fails(acc, "GetUser", fault)
    THEN Failed(acc, Call("GetUser", src, key, NoPayload, FALSE), "getting GitHub user")
    ELSE LET a1 == Logged(acc, Call("GetUser", src, key, NoPayload, TRUE))
             body == FormatBody(c)
             req == [id |-> Len(a1.st[key].comments) + 1, body |-> body]
         IN IF dryRun THEN a1
            ELSE IF Fails(a1, "AddComment", fault)
            THEN Failed(a1, Call("AddComment", src, key, req, FALSE), "creating Jira comment")
            ELSE [Logged(a1, Call("AddComment", src, key, req, TRUE))
                    EXCEPT !.st[key].comments = Append(@, req)]

\* jiraClient.UpdateComment: GetUser, format the body, PUT it on the comment's
\* ID.  The PUT is decoded into nothing (client.Do(req, nil)), so the type
\* assertion on the result fails and an error is returned although the PUT
\* went through.  In a dry run no request is made and nil is returned.
JiraUpdateComment(acc, src, key, id, c, fault) ==
    IF Fails(acc, "GetUser", fault)
    THEN Failed(acc, Call("GetUser", src, key, NoPayload, FALSE), "getting GitHub user")
    ELSE LET a1 == Logged(acc, Call("GetUser", src, key, NoPayload, TRUE))
             body == FormatBody(c)
             req == [id |-> id, body |-> body]
         IN IF dryRun THEN a1
            ELSE IF Fails(a1, "PutComment", fault)
            THEN Failed(a1, Call("PutComment", src, key, req, FALSE), "updating Jira comment")
            ELSE [Failed(a1, Call("PutComment", src, key, req, TRUE), "updating Jira comment")
                    EXCEPT !.st[key].comments[id] = req]

----------------------------------------------------------------------------
\* Comment reconciler (package comment of src/unnamed/part_002).

\* An inner loop in which the last Jira comment of the ID wins.
RECURSIVE LastMatch(_, _, _)
LastMatch(c, jComments, i) ==
    IF i > Len(jComments) THEN 0
    ELSE LET matches == jCommentIDRegex(jComments[i].body)
             intID == Atoi(matches.digits)
             later == LastMatch(c, jComments, i + 1)
         IN IF later # 0 THEN later
            ELSE IF ~matches.ok THEN 0
            ELSE IF ~intID.ok THEN -1
            ELSE IF Digits(c.id) # intID.n THEN 0
            ELSE i

\* The inner loop of Compare for one GitHub comment: the index of the first
\* Jira comment whose header ID equals the comment's ID, 0 when there is none,
\* -1 when strconv.Atoi rejects the digits of a header.
RECURSIVE FirstMatch(_, _, _)
FirstMatch(c, jComments, i) ==
    IF i > Len(jComments) THEN 0
    ELSE LET matches == jCommentIDRegex(jComments[i].body)
             intID == Atoi(matches.digits)
         IN IF ~matches.ok THEN FirstMatch(c, jComments, i + 1)
            ELSE IF ~intID.ok THEN -1
            ELSE IF Digits(c.id) # intID.n THEN FirstMatch(c, jComments, i + 1)
            ELSE i

\* A comparison that skips a header whose digits strconv.Atoi rejects.
RECURSIVE CommentCompareLenient(_, _, _, _)
CommentCompareLenient(ghComments, jComments, i, res) ==
    IF i > Len(ghComments) THEN res
    ELSE LET m == FirstMatch(ghComments[i], jComments, 1)
         IN IF m <= 0
            THEN CommentCompareLenient(ghComments, jComments, i + 1,
                     [res EXCEPT !.ShouldCreate = Append(@, ghComments[i])])
            ELSE CommentCompareLenient(ghComments, jComments, i + 1,
                     [res EXCEPT !.ShouldUpdate =
                         Append(@, [GhComment |-> ghComments[i], JiraComment |-> jComments[m]])])

\* Compare(ghComments, jiraComments): ShouldCreate, ShouldUpdate, or an error.
RECURSIVE CommentCompare(_, _, _, _)
CommentCompare(ghComments, jComments, i, res) ==
    IF i > Len(ghComments) THEN res
    ELSE LET m == FirstMatch(ghComments[i], jComments, 1)
         IN IF m = -1
            THEN [err |-> "converting comment ID to int", ShouldCreate |-> <<>>,
                  ShouldUpdate |-> <<>>]
            ELSE IF m = 0
            THEN CommentCompare(ghComments, jComments, i + 1,
                     [res EXCEPT !.ShouldCreate = Append(@, ghComments[i])])
            ELSE CommentCompare(ghComments, jComments, i + 1,
                     [res EXCEPT !.ShouldUpdate =
                         Append(@, [GhComment |-> ghComments[i], JiraComment |-> jComments[m]])])

\* An update decision that sends the update whatever the stored body is.
UpdateCommentAlways(acc, src, key, ghComment, jComment, fault) ==
    LET fields == jCommentRegex(jComment.body)
    IN IF ~fields.ok THEN [acc EXCEPT !.crashed = TRUE]
       ELSE JiraUpdateComment(acc, src, key, jComment.id, ghComment, fault)

\* UpdateComment: fields[5] of a body the pattern does not match indexes a nil
\* slice, which panics.
UpdateComment(acc, src, key, ghComment, jComment, fault) ==
    LET fields == jCommentRegex(jComment.body)
    IN IF ~fields.ok THEN [acc EXCEPT !.crashed = TRUE]
       ELSE IF fields.body = ghComment.body THEN acc
       ELSE JiraUpdateComment(acc, src, key, jComment.id, ghComment, fault)

RECURSIVE CreateAll(_, _, _, _, _, _)
CreateAll(acc, src, key, cs, i, fault) ==
    IF i > Len(cs) \/ acc.err # "" \/ acc.crashed THEN acc
    ELSE CreateAll(JiraCreateComment(acc, src, key, cs[i], fault), src, key, cs, i + 1, fault)

RECURSIVE UpdateAll(_, _, _, _, _, _)
UpdateAll(acc, src, key, ps, i, fault) ==
    IF i > Len(ps) \/ acc.err # "" \/ acc.crashed THEN acc
    ELSE UpdateAll(UpdateComment(acc, src, key, ps[i].GhComment, ps[i].JiraComment, fault),
                   src, key, ps, i + 1, fault)

\* A reconciler that lists the comments of every issue, commented or not.
ReconcileListing(acc, gh, key, fault) ==
    LET a0 == [acc EXCEPT !.recon = Append(@, key)]
    IN IF Fails(a0, "ListComments", fault)
       THEN Failed(a0, Call("ListComments", gh.id, key, NoPayload, FALSE),
                   "listing GitHub comments")
       ELSE LET res == CommentCompare(gh.comments, a0.st[key].comments, 1,
                           [err |-> "", ShouldCreate |-> <<>>, ShouldUpdate |-> <<>>])
                a1 == [Logged(a0, Call("ListComments", gh.id, key, NoPayload, TRUE))
                          EXCEPT !.cmp = Append(@, [ghComments |-> gh.comments,
                                                    jiraComments |-> a0.st[key].comments,
                                                    res |-> res])]
            IN IF res.err # "" THEN [a1 EXCEPT !.err = "error comparing comments"]
               ELSE LET a2 == CreateAll(a1, gh.id, key, res.ShouldCreate, 1, fault)
                    IN UpdateAll(a2, gh.id, key, res.ShouldUpdate, 1, fault)

\* Reconcile(cfg, ghIssue, jIssue, ghClient, jClient), jIssue being the issue
\* of that key as GetIssue just returned it.
Reconcile(acc, gh, key, fault) ==
    LET a0 == [acc EXCEPT !.recon = Append(@, key)]
    IN IF Len(gh.comments) = 0 THEN a0
       ELSE IF Fails(a0, "ListComments", fault)
       THEN Failed(a0, Call("ListComments", gh.id, key, NoPayload, FALSE),
                   "listing GitHub comments")
       ELSE LET res == CommentCompare(gh.comments, a0.st[key].comments, 1,
                           [err |-> "", ShouldCreate |-> <<>>, ShouldUpdate |-> <<>>])
                a1 == [Logged(a0, Call("ListComments", gh.id, key, NoPayload, TRUE))
                          EXCEPT !.cmp = Append(@, [ghComments |-> gh.comments,
                                                    jiraComments |-> a0.st[key].comments,
                                                    res |-> res])]
            IN IF res.err # "" THEN [a1 EXCEPT !.err = "error comparing comments"]
               ELSE LET a2 == CreateAll(a1, gh.id, key, res.ShouldCreate, 1, fault)
                    IN UpdateAll(a2, gh.id, key, res.ShouldUpdate, 1, fault)

----------------------------------------------------------------------------
\* Issue reconciler (package issue of src/internal/jira/issue/issue.go).

\* A scan that pairs the source issue with the first target carrying a
\* numeric GitHub ID, whatever the ID.
RECURSIVE ScanAnyID(_, _, _)
ScanAnyID(ghID, targets, i) ==
    IF i > Len(targets) THEN [found |-> FALSE, pos |-> 0, scanned |-> i - 1]
    ELSE LET id == targets[i].ghid
         IN IF id.t # "float64" THEN [found |-> FALSE, pos |-> 0, scanned |-> i]
            ELSE [found |-> TRUE, pos |-> i, scanned |-> i]

\* The scan of Compare over the target list for one GitHub ID: whether a
\* target was found, its position, and how many targets were examined.  A
\* field value that is not a float64 ends the scan (break).
RECURSIVE Scan(_, _, _)
Scan(ghID, targets, i) ==
    IF i > Len(targets) THEN [found |-> FALSE, pos |-> 0, scanned |-> i - 1]
    ELSE LET id == targets[i].ghid
         IN IF id.t # "float64" THEN [found |-> FALSE, pos |-> 0, scanned |-> i]
            ELSE IF id.n = ghID THEN [found |-> TRUE, pos |-> i, scanned |-> i]
            ELSE Scan(ghID, targets, i + 1)

\* The inner loop of DidIssueChange over the Jira labels for one GitHub label:
\* TRUE when it sets anyDifferent.
RECURSIVE LabelLoop(_, _, _, _)
LabelLoop(label, jiraLabels, i, found) ==
    IF i > Len(jiraLabels) THEN FALSE
    ELSE IF i <= Len(jiraLabels) /\ ~found
         THEN IF label = jiraLabels[i] THEN FALSE
              ELSE LabelLoop(label, jiraLabels, i + 1, found)
         ELSE TRUE

\* The outer loop of DidIssueChange over the GitHub labels.
RECURSIVE LabelsDiffer(_, _, _, _)
LabelsDiffer(ghLabels, jiraLabels, i, anyDifferent) ==
    IF i > Len(ghLabels) THEN anyDifferent
    ELSE LabelsDiffer(ghLabels, jiraLabels, i + 1,
             IF ~anyDifferent THEN LabelLoop(ghLabels[i], jiraLabels, 1, FALSE)
             ELSE anyDifferent)

\* A differ that takes a status or reporter field it cannot read as equal.
DidIssueChangeUnreadable(gh, j) ==
    LET a1 == gh.title # j.summary
        a2 == a1 \/ gh.body # j.description
        status == UnknownsString(j.status)
        a3 == a2 \/ (status.ok /\ gh.state # status.s)
        reporter == UnknownsString(j.reporter)
        a4 == a3 \/ (reporter.ok /\ gh.login # reporter.s)
        jiraLabels == IF j.labels.t = "[]string" THEN j.labels.l ELSE <<>>
    IN IF Len(gh.labels) > 0
       THEN LabelsDiffer(githubLabelsToStrSlice(gh.labels), jiraLabels, 1, a4)
       ELSE a4

\* A differ that reports a change when the Jira issue has labels and the
\* GitHub issue has none.
DidIssueChangeBothWays(gh, j) ==
    LET a1 == gh.title # j.summary
        a2 == a1 \/ gh.body # j.description
        status == UnknownsString(j.status)
        a3 == a2 \/ ~status.ok \/ gh.state # status.s
        reporter == UnknownsString(j.reporter)
        a4 == a3 \/ ~reporter.ok \/ gh.login # reporter.s
        jiraLabels == IF j.labels.t = "[]string" THEN j.labels.l ELSE <<>>
    IN IF Len(gh.labels) > 0
       THEN LabelsDiffer(githubLabelsToStrSlice(gh.labels), jiraLabels, 1, a4)
       ELSE a4 \/ Len(jiraLabels) > 0

DidIssueChange(gh, j) ==
    LET a1 == gh.title # j.summary
        a2 == a1 \/ gh.body # j.description
        status == UnknownsString(j.status)
        a3 == a2 \/ ~status.ok \/ gh.state # status.s
        reporter == UnknownsString(j.reporter)
        a4 == a3 \/ ~reporter.ok \/ gh.login # reporter.s
        \* labelsField.([]string): nil unless the value is a []string
        jiraLabels == IF j.labels.t = "[]string" THEN j.labels.l ELSE <<>>
    IN IF Len(gh.labels) > 0
       THEN LabelsDiffer(githubLabelsToStrSlice(gh.labels), jiraLabels, 1, a4)
       ELSE a4

\* Update fields whose labels are sent as GitHub has them.
UpdateFieldsRawLabels(gh, t) ==
    [summary |-> gh.title, description |-> gh.body, status |-> Str(gh.state),
     reporter |-> Str(gh.login), labels |-> Anys(gh.labels), lastSync |-> t]

\* Update fields that send the GitHub ID again.
UpdateFieldsWithID(gh, t) ==
    [ghid |-> Str(FormatInt(gh.id)), summary |-> gh.title, description |-> gh.body,
     status |-> Str(gh.state), reporter |-> Str(gh.login),
     labels |-> Anys(githubLabelsToStrSlice(gh.labels)), lastSync |-> t]

\* The fields UpdateIssue sends: a fresh IssueFields, every tracked field from
\* the GitHub issue, the sync time set to time.Now().
UpdateFields(gh, t) ==
    [summary |-> gh.title, description |-> gh.body, status |-> Str(gh.state),
     reporter |-> Str(gh.login), labels |-> Anys(githubLabelsToStrSlice(gh.labels)),
     lastSync |-> t]

\* The fields CreateIssue sends.  The GitHub ID is sent as a number and reads
\* back from JSON as a float64.
CreateFields(gh, t) ==
    [ghid |-> Num(gh.id), number |-> gh.number, summary |-> gh.title,
     description |-> gh.body, status |-> Str(gh.state), reporter |-> Str(gh.login),
     labels |-> Anys(githubLabelsToStrSlice(gh.labels)), lastSync |-> t,
     comments |-> <<>>]

\* Jira applies an update: the fields of the request replace the issue's, the
\* others stay.
Apply(issue, fields) ==
    [f \in DOMAIN issue |-> IF f \in DOMAIN fields THEN fields[f] ELSE issue[f]]

\* A tail that reconciles the comments only after the issue was written.
FetchAndReconcileIfWritten(acc, gh, key, fault) ==
    IF Fails(acc, "GetIssue", fault)
    THEN Failed(acc, Call("GetIssue", gh.id, key, NoPayload, FALSE), "getting Jira issue")
    ELSE LET a1 == Logged(acc, Call("GetIssue", gh.id, key, NoPayload, TRUE))
             a2 == IF CountOp(acc, "UpdateIssue") + CountOp(acc, "CreateIssue") = 0
                   THEN a1 ELSE Reconcile(a1, gh, key, fault)
         IN IF a2.err # "" /\ ~a2.crashed
            THEN [a2 EXCEPT !.err = "comparing comments for issue"]
            ELSE a2

\* A tail that is run for the first GitHub issue of the list, whichever issue
\* the loop is at.
FetchAndReconcileFirst(acc, gh, key, fault) ==
    LET first == ghIssues[1]
    IN IF Fails(acc, "GetIssue", fault)
       THEN Failed(acc, Call("GetIssue", first.id, key, NoPayload, FALSE), "getting Jira issue")
       ELSE LET a1 == Logged(acc, Call("GetIssue", first.id, key, NoPayload, TRUE))
                a2 == Reconcile(a1, first, key, fault)
            IN IF a2.err # "" /\ ~a2.crashed
               THEN [a2 EXCEPT !.err = "comparing comments for issue"]
               ELSE a2

\* The tail common to UpdateIssue and CreateIssue: GetIssue, then the comment
\* reconciler against the issue it returned.  Jira has no issue for a key that
\* is not in the project, such as the empty key of an issue that was not sent.
FetchAndReconcile(acc, gh, key, fault) ==
    IF Fails(acc, "GetIssue", fault) \/ key \notin DOMAIN acc.st
    THEN Failed(acc, Call("GetIssue", gh.id, key, NoPayload, FALSE), "getting Jira issue")
    ELSE LET a1 == Logged(acc, Call("GetIssue", gh.id, key, NoPayload, TRUE))
             a2 == Reconcile(a1, gh, key, fault)
         IN IF a2.err # "" /\ ~a2.crashed
            THEN [a2 EXCEPT !.err = "comparing comments for issue"]
            ELSE a2

\* An update that is sent whether or not the differ reports a change.
UpdateIssueAlways(acc, gh, jIssue, t, fault) ==
    LET key == jIssue.key
        fields == UpdateFields(gh, t)
    IN IF Fails(acc, "UpdateIssue", fault)
       THEN Failed(acc, Call("UpdateIssue", gh.id, key, fields, FALSE),
                   "updating Jira issue")
       ELSE FetchAndReconcile(
                [Logged(acc, Call("UpdateIssue", gh.id, key, fields, TRUE))
                    EXCEPT !.st[key] = Apply(@, fields)],
                gh, key, fault)

\* UpdateIssue(cfg, ghIssue, jIssue, ghClient, jClient); jIssue is the copy
\* of the target taken from the list of the pass.  In a dry run
\* jiraClient.UpdateIssue prints the fields and makes no request.
UpdateIssue(acc, gh, jIssue, t, fault) ==
    LET key == jIssue.key
    IN IF DidIssueChange(gh, jIssue)
       THEN LET fields == UpdateFields(gh, t)
            IN IF dryRun THEN FetchAndReconcile(acc, gh, key, fault)
               ELSE IF Fails(acc, "UpdateIssue", fault)
               THEN Failed(acc, Call("UpdateIssue", gh.id, key, fields, FALSE),
                           "updating Jira issue")
               ELSE FetchAndReconcile(
                        [Logged(acc, Call("UpdateIssue", gh.id, key, fields, TRUE))
                            EXCEPT !.st[key] = Apply(@, fields)],
                        gh, key, fault)
       ELSE FetchAndReconcile(acc, gh, key, fault)

\* CreateIssue(cfg, issue, ghClient, jClient).  In a dry run
\* jiraClient.CreateIssue prints the fields, makes no request and returns the
\* issue it was given, which has no key.
CreateIssue(acc, gh, t, fault) ==
    LET key == Len(acc.st) + 1
        fields == CreateFields(gh, t)
    IN IF dryRun THEN FetchAndReconcile(acc, gh, 0, fault)
       ELSE IF Fails(acc, "CreateIssue", fault)
       THEN Failed(acc, Call("CreateIssue", gh.id, 0, fields, FALSE), "creating Jira issue")
       ELSE FetchAndReconcile(
                [Logged(acc, Call("CreateIssue", gh.id, key, fields, TRUE))
                    EXCEPT !.st = Append(@, [key |-> key] @@ fields)],
                gh, key, fault)

----------------------------------------------------------------------------
\* Jira client, issues (package jira of src/internal/jira/auth/auth.go).

maxJQLIssueLength == 100

\* MarshalMap.Int(key): the value and whether err == nil.
UnknownsInt(v) == [ok |-> v.t = "float64", n |-> v.n]

\* jiraClient.ListIssues(ids).  With fewer than maxJQLIssueLength IDs the
\* query "cf[GitHub ID] in (ids)" is evaluated by Jira, which returns the
\* issues whose field denotes one of the IDs; otherwise the whole project is
\* fetched and filtered here.
JiraListIssues(ids, st) ==
    IF Len(ids) < maxJQLIssueLength
    THEN SelectSeq(st, LAMBDA v : Denotes(v.ghid) \in SeqToSet(ids))
    ELSE SelectSeq(st, LAMBDA v : /\ UnknownsInt(v.ghid).ok
                                  /\ UnknownsInt(v.ghid).n \in SeqToSet(ids))

----------------------------------------------------------------------------
\* Request wrappers: an API function f of the Jira or the GitHub library is
\* called with exponential backoff (backoff.RetryNotify) until it succeeds or
\* the configured timeout, the backoff's MaxElapsedTime, would be exceeded.

\* The wrappers: NewJiraRequest of package http (src/unnamed/part_007),
\* realJIRAClient.request (src/unnamed/part_009) and realGHClient.request
\* (src/github/github.go).
Wrappers == {"NewJiraRequest", "realJIRAClient.request", "realGHClient.request"}

\* Largest timeout of a request, in ticks of the clock.
MaxTimeout == 6

\* Ticks one call of the API function may take.
CallTicks == {0, 1}

\* The first interval of the backoff and the factor by which it grows.
InitialInterval == 1
Multiplier == 2

\* The error value nil.
Nil == "nil"

NoRequest ==
    [wrapper |-> "none", timeout |-> 0, phase |-> "none", elapsed |-> 0, interval |-> 0,
     ret |-> Nil, err |-> Nil, out |-> [ret |-> Nil, err |-> Nil]]

\* A wrapper was called with an API function f and the timeout.
NewRequest(wrapper, timeout) ==
    [NoRequest EXCEPT !.wrapper = wrapper, !.timeout = timeout, !.phase = "ready",
                      !.interval = InitialInterval]

\* fmt.Errorf("...: %w", e): an error, also when e is nil.
Errorf(e) == "backoff error"

\* What the wrapper returns once RetryNotify has returned backoffErr, ret
\* being what the last call of f returned.
Returns(wrapper, ret, backoffErr) ==
    CASE wrapper = "NewJiraRequest" ->
             IF backoffErr # Nil THEN [ret |-> ret, err |-> Errorf(backoffErr)]
             ELSE [ret |-> ret, err |-> Nil]
      [] wrapper = "realJIRAClient.request" ->
             [ret |-> ret, err |-> Errorf(backoffErr)]
      [] wrapper = "realGHClient.request" ->
             [ret |-> ret, err |-> Nil]

\* One round of RetryNotify: f is called and takes d ticks.  When it succeeds
\* RetryNotify returns nil; when it fails and the next interval would pass the
\* timeout, RetryNotify returns the error of f; otherwise the timer of the
\* interval is started.
CallAPI ==
    /\ retry.phase = "ready"
    /\ \E ok \in BOOLEAN, d \in CallTicks :
          LET elapsed == retry.elapsed + d
              ret == IF ok THEN "value" ELSE Nil
              err == IF ok THEN Nil ELSE "api error"
              stop == elapsed + retry.interval > retry.timeout
          IN retry' = IF ok \/ stop
                    THEN [retry EXCEPT !.elapsed = elapsed, !.ret = ret, !.err = err,
                                     !.phase = "returned",
                                     !.out = Returns(retry.wrapper, ret, err)]
                    ELSE [retry EXCEPT !.elapsed = elapsed, !.ret = ret, !.err = err,
                                     !.phase = "waiting"]
    /\ UNCHANGED passVars

\* The timer of the interval fires: the interval grows and f is called again.
TimerFires ==
    /\ retry.phase = "waiting"
    /\ retry' = [retry EXCEPT !.elapsed = @ + retry.interval,
                          !.interval = @ * Multiplier,
                          !.phase = "ready"]
    /\ UNCHANGED passVars

NextRequest ==
    \/ CallAPI
    \/ TimerFires

----------------------------------------------------------------------------
\* The pass: Compare(cfg, ghClient, jiraClient), run by RootCmd's loop.

\* cfg.IsDaemon()
IsDaemon == period # 0

\* A loop that does not wait for the timer before it calls Compare again.
StartPassEarly ==
    /\ pc \in {"idle", "sleep"}
    /\ pass < MaxPasses
    /\ pass' = pass + 1
    /\ now' = now + 1
    /\ handled' = <<>>
    /\ UNCHANGED <<ghIssues, store, dryRun, period, retry>>

\* RootCmd's loop calls Compare.
StartPass ==
    /\ pc = "idle"
    /\ pass < MaxPasses
    /\ pass' = pass + 1
    /\ now' = now + 1
    /\ handled' = <<>>
    /\ UNCHANGED <<ghIssues, store, dryRun, period, retry>>

\* The pass that returned err after the calls cl and the processings hs
\* succeeded in full.
Succeeded(err, cl, hs) ==
    /\ err = "nil"
    /\ \A c \in DOMAIN cl : cl[c].ok
    /\ \A k \in DOMAIN hs : hs[k].err = "" /\ ~hs[k].crashed

\* The rest of RootCmd's loop body once Compare has returned err at time t:
\* the error is logged; unless this is a dry run, SaveConfig sets `since` to
\* time.Now() and writes the configuration file; the command returns unless
\* it runs as a daemon, and otherwise starts the timer of the period.
Return(err, t) ==
    /\ passErr' = err
    /\ since' = IF dryRun THEN since ELSE t
    /\ pc' = IF IsDaemon THEN "sleep" ELSE "exited"
    /\ timer' = IF IsDaemon THEN t + period ELSE timer
    /\ clean' = Succeeded(err, calls', handled')

\* ghClient.ListIssues fails: the pass returns the error.
ListGitHubFails ==
    /\ StartPass
    /\ calls' = <<Call("ListGitHubIssues", 0, 0, NoPayload, FALSE)>>
    /\ jiraIssues' = <<>>
    /\ UNCHANGED idx
    /\ Return("listing GitHub issues", now')

\* There are no GitHub issues: the pass returns nil.
NoGitHubIssues ==
    /\ StartPass
    /\ Len(ghIssues) = 0
    /\ calls' = <<Call("ListGitHubIssues", 0, 0, NoPayload, TRUE)>>
    /\ jiraIssues' = <<>>
    /\ UNCHANGED idx
    /\ Return("nil", now')

\* A failed listing of the Jira issues after which the loop runs all the same.
ListJiraFailsAndGoesOn ==
    /\ StartPass
    /\ Len(ghIssues) > 0
    /\ calls' = <<Call("ListGitHubIssues", 0, 0, NoPayload, TRUE),
                  Call("ListJiraIssues", 0, 0, NoPayload, FALSE)>>
    /\ passErr' = "listing Jira issues"
    /\ jiraIssues' = <<>>
    /\ pc' = "loop"
    /\ idx' = 1
    /\ UNCHANGED <<since, timer, clean>>

\* jiraClient.ListIssues fails: the pass returns the error.
ListJiraFails ==
    /\ StartPass
    /\ Len(ghIssues) > 0
    /\ calls' = <<Call("ListGitHubIssues", 0, 0, NoPayload, TRUE),
                  Call("ListJiraIssues", 0, 0, NoPayload, FALSE)>>
    /\ jiraIssues' = <<>>
    /\ UNCHANGED idx
    /\ Return("listing Jira issues", now')

\* Both lists are collected and the loop over the GitHub issues begins.
Collect ==
    /\ StartPass
    /\ Len(ghIssues) > 0
    /\ calls' = <<Call("ListGitHubIssues", 0, 0, NoPayload, TRUE),
                  Call("ListJiraIssues", 0, 0, NoPayload, TRUE)>>
    /\ jiraIssues' = JiraListIssues([i \in DOMAIN ghIssues |-> ghIssues[i].id], store)
    /\ passErr' = "running"
    /\ pc' = "loop"
    /\ idx' = 1
    /\ UNCHANGED <<since, timer, clean>>

\* What the loop records of one source issue.
Handled(gh, op, sc, jIssue, acc) ==
    [i |-> idx, src |-> gh.id, op |-> op, pos |-> sc.pos, scanned |-> sc.scanned,
     changed |-> IF op = "update" THEN DidIssueChange(gh, jIssue) ELSE FALSE,
     err |-> acc.err, crashed |-> acc.crashed, recon |-> acc.recon, cmp |-> acc.cmp,
     first |-> acc.base + 1, last |-> Len(acc.calls)]

AfterStep(gh, op, sc, jIssue, acc) ==
    /\ store' = acc.st
    /\ calls' = acc.calls
    /\ handled' = Append(handled, Handled(gh, op, sc, jIssue, acc))
    /\ pc' = IF acc.crashed THEN "crashed" ELSE "loop"
    /\ idx' = IF acc.crashed THEN idx ELSE idx + 1
    /\ UNCHANGED <<ghIssues, jiraIssues, pass, now, passErr, dryRun, period, since, timer, clean,
                   retry>>

\* One iteration of the loop for a source issue the scan found a target for.
UpdateStep ==
    /\ pc = "loop"
    /\ idx <= Len(ghIssues)
    /\ LET gh == ghIssues[idx]
           sc == Scan(gh.id, jiraIssues, 1)
       IN /\ sc.found
          /\ \E fault \in Faults :
                AfterStep(gh, "update", sc, jiraIssues[sc.pos],
                          UpdateIssue(Acc(store, calls), gh, jiraIssues[sc.pos], now, fault))

\* One iteration of the loop for a source issue the scan found no target for.
CreateStep ==
    /\ pc = "loop"
    /\ idx <= Len(ghIssues)
    /\ LET gh == ghIssues[idx]
           sc == Scan(gh.id, jiraIssues, 1)
       IN /\ ~sc.found
          /\ \E fault \in Faults :
                AfterStep(gh, "create", sc, gh,
                          CreateIssue(Acc(store, calls), gh, now, fault))

\* The loop is over: the pass returns nil.
FinishPass ==
    /\ pc = "loop"
    /\ idx > Len(ghIssues)
    /\ UNCHANGED <<ghIssues, store, jiraIssues, idx, pass, now, calls, handled, dryRun, period,
                   retry>>
    /\ Return("nil", now)

\* <-time.After(cfg.GetDaemonPeriod()): the timer fires and the loop goes round.
Wake ==
    /\ pc = "sleep"
    /\ pass < MaxPasses
    /\ now' = timer
    /\ pc' = "idle"
    /\ UNCHANGED <<ghIssues, store, jiraIssues, idx, pass, calls, handled, passErr,
                   dryRun, period, since, timer, clean, retry>>

Next ==
    \/ ListGitHubFails
    \/ NoGitHubIssues
    \/ ListJiraFails
    \/ Collect
    \/ UpdateStep
    \/ CreateStep
    \/ FinishPass
    \/ Wake

----------------------------------------------------------------------------
\* Initial states.

Text(a, b) == Txt(<<a, b>>, 0)

\* A GitHub comment; name is the display name GetUser returns for its author.
SrcComment(id, name, body) == [id |-> id, login |-> "bob", name |-> name, body |-> body]

SrcIssue(id, title, body, state, login, labels, cs) ==
    [id |-> id, number |-> id + 100, title |-> title, body |-> body, state |-> state,
     login |-> login, labels |-> labels, comments |-> cs]

Target(ghid, summary, description, status, reporter, labels, cs) ==
    [ghid |-> ghid, number |-> 0, summary |-> summary, description |-> description,
     status |-> status, reporter |-> reporter, labels |-> labels, lastSync |-> 0,
     comments |-> cs]

\* Jira keys are the positions in the project.
Keyed(ts) == [i \in DOMAIN ts |-> [key |-> i] @@ ts[i]]

SeqsUpTo(S, n) == UNION {[1..k -> S] : k \in 0..n}

\* The repository of the passes: issue 1 may carry one comment, written by a
\* user with or without a display name.
CommentChoices(id) ==
    IF id = 1
    THEN {<<>>, <<SrcComment(11, "Bob", Text("h", "i"))>>, <<SrcComment(11, "", Text("h", "i"))>>}
    ELSE {<<>>}

SourceIssues ==
    UNION {{SrcIssue(id, "T1", "B1", "open", "bob", <<>>, cs) : cs \in CommentChoices(id)} :
           id \in IssueIds}

SourceLists ==
    {<<>>} \cup {<<a>> : a \in SourceIssues}
           \cup {<<p[1], p[2]>> : p \in {q \in SourceIssues \X SourceIssues : q[1].id # q[2].id}}

\* The comment a target of issue 1 may carry at the start: the comment as the
\* client wrote it for an earlier body.  The passes themselves write the
\* comments of the present body and of an author without display name.
JiraComment(name, body) == [id |-> 1, body |-> FormatBody(SrcComment(11, name, body))]

PlainTarget(ghid, summary, cs) ==
    Target(ghid, summary, "B1", Str("open"), Str("bob"), Anys(<<>>), cs)

TargetChoices ==
    {PlainTarget(Num(1), summary, <<>>) : summary \in {"T1", "T2"}}
    \cup {PlainTarget(Num(1), "T1", <<JiraComment("Bob", Text("h", "o"))>>)}
    \cup {PlainTarget(Num(2), "T1", <<>>), PlainTarget(Str("1"), "T1", <<>>)}

Start ==
    /\ jiraIssues = <<>>
    /\ pc = "idle"
    /\ idx = 0
    /\ pass = 0
    /\ now = 0
    /\ calls = <<>>
    /\ handled = <<>>
    /\ passErr = "none"
    /\ since = 0
    /\ timer = 0
    /\ clean = FALSE
    /\ retry = NoRequest

\* The tool runs as a daemon with --confirm set.
Confirmed ==
    /\ dryRun = FALSE
    /\ period = Period

Init ==
    /\ ghIssues \in SourceLists
    /\ store \in {Keyed(ts) : ts \in SeqsUpTo(TargetChoices, MaxTargets)}
    /\ Start
    /\ Confirmed

Spec == Init /\ [][Next]_vars

----------------------------------------------------------------------------
\* Initial states for the field differ: one GitHub issue and the one target
\* of its ID, with every tracked field of the target drawn independently.

LabelAB == <<"a", " ", "b">>
LabelAhB == <<"a", "-", "b">>
LabelC == <<"c">>

DifferSources ==
    {SrcIssue(1, "T1", "B1", "open", "bob", labels, <<>>) :
        labels \in {<<>>, <<LabelAB>>, <<LabelC>>, <<LabelAB, LabelC>>}}

DifferLabels ==
    {Missing, Anys(<<LabelAhB>>), Strs(<<>>), Strs(<<LabelAhB>>), Strs(<<LabelC>>),
     Strs(<<LabelAhB, LabelC>>), Strs(<<LabelC, LabelAhB>>), Strs(<<LabelAB>>)}

DifferTargets ==
    {Target(ghid, summary, description, status, reporter, labels, <<>>) :
        ghid \in {Num(1), Str("1")},
        summary \in {"T1", "T2"},
        description \in {"B1", ""},
        status \in {Missing, Num(1), Str("open"), Str("closed")},
        reporter \in {Missing, Str("bob"), Str("eve")},
        labels \in DifferLabels}

InitDiffer ==
    /\ ghIssues \in {<<>>} \cup {<<g>> : g \in DifferSources}
    /\ store \in {Keyed(<<t>>) : t \in DifferTargets}
    /\ Start
    /\ Confirmed

SpecDiffer == InitDiffer /\ [][Next]_vars

----------------------------------------------------------------------------
\* Initial states for the comment reconciler: one GitHub issue with up to
\* MaxComments comments and its Jira issue with up to MaxComments comments.

\* Number of comments of the GitHub issue, and of its Jira issue, before the
\* first pass.
MaxComments == 2

\* Bytes of plain text that make a comment body longer than maxBodyLength.
LongFill == maxBodyLength

\* A body of two lines.
TwoLines == Txt(<<"h", Newline, "i">>, 0)

SrcCommentChoices ==
    {SrcComment(11, "Bob", Text("h", "i")),
     SrcComment(12, "", TwoLines),
     SrcComment(12, "Bob", Txt(<<"h">>, LongFill))}

\* A Jira comment that a person wrote, quoting the header of comment 11.
Quoting == Txt(<<"see">>, 0)

\* A header whose ID has more digits than an int holds.
Overflowing ==
    Txt(<<LitID>> \o MaxInt64 \o <<"0", LitIDEnd, HTMLURL, LitFrom, "bob", LitBar, HTMLURL,
          LitName, "Bob", LitAt, CreatedAt, LitBody, "h", "i">>, 0)

JiraBodyChoices ==
    {FormatBody(SrcComment(11, "Bob", Text("h", "i"))),
     FormatBody(SrcComment(11, "Bob", Text("h", "o"))),
     FormatBody(SrcComment(12, "Bob", Text("h", "o"))),
     FormatBody(SrcComment(11, "", Text("h", "o"))),
     Txt(Quoting.head \o FormatBody(SrcComment(11, "Bob", Text("h", "o"))).head, 0),
     Overflowing}

\* Jira numbers the comments of an issue.
Numbered(bodies) == [i \in DOMAIN bodies |-> [id |-> i, body |-> bodies[i]]]

InitComments ==
    /\ ghIssues \in {<<>>} \cup {<<SrcIssue(1, "T1", "B1", "open", "bob", <<>>, cs)>> :
                                     cs \in SeqsUpTo(SrcCommentChoices, MaxComments)}
    /\ store \in {<<>>} \cup {Keyed(<<PlainTarget(Num(1), "T1", Numbered(bodies))>>) :
                                  bodies \in SeqsUpTo(JiraBodyChoices, MaxComments)}
    /\ Start
    /\ Confirmed

SpecComments == InitComments /\ [][Next]_vars

----------------------------------------------------------------------------
\* Initial states for the command: the repository and a project of at most one
\* issue, with and without --confirm, as a single run and as a daemon.

InitRun ==
    /\ ghIssues \in SourceLists
    /\ store \in {Keyed(ts) : ts \in SeqsUpTo(TargetChoices, 1)}
    /\ Start
    /\ dryRun \in BOOLEAN
    /\ period \in {0, Period}

SpecRun == InitRun /\ [][Next]_vars

----------------------------------------------------------------------------
\* Initial states for the request wrappers: one request, made through one of
\* the wrappers with a timeout of 1 to MaxTimeout ticks; no pass is run.

InitRequest ==
    /\ ghIssues = <<>>
    /\ store = <<>>
    /\ jiraIssues = <<>>
    /\ pc = "idle"
    /\ idx = 0
    /\ pass = 0
    /\ now = 0
    /\ calls = <<>>
    /\ handled = <<>>
    /\ passErr = "none"
    /\ since = 0
    /\ timer = 0
    /\ clean = FALSE
    /\ Confirmed
    /\ retry \in {NewRequest(w, t) : w \in Wrappers, t \in 1..MaxTimeout}

SpecRequest == InitRequest /\ [][NextRequest]_vars

----------------------------------------------------------------------------
\* Initial states for the listing of the Jira issues: a repository of n
\* issues, n below, at and above maxJQLIssueLength, and a project whose
\* issues carry the GitHub ID as a number, as a string, or not at all.

Repository(n) == [i \in 1..n |-> SrcIssue(i, "T1", "B1", "open", "bob", <<>>, <<>>)]

ListSizes == {1, maxJQLIssueLength - 1, maxJQLIssueLength, maxJQLIssueLength + 1}

ListTargets ==
    {PlainTarget(ghid, "T1", <<>>) :
        ghid \in {Num(1), Num(maxJQLIssueLength), Num(maxJQLIssueLength + 1),
                  Str("1"), Missing}}

InitListing ==
    /\ ghIssues \in {Repository(n) : n \in ListSizes}
    /\ store \in {Keyed(ts) : ts \in SeqsUpTo(ListTargets, MaxTargets)}
    /\ Start
    /\ Confirmed

\* The head of a pass: the two listings.
NextListing ==
    \/ ListJiraFails
    \/ Collect

SpecListing == InitListing /\ [][NextListing]_vars

----------------------------------------------------------------------------
\* Properties of the issue reconciler.

\* The positions of the target list whose GitHub-ID field numerically equals
\* id, whether it was decoded as a float64 or as a string.
Matches(id) == {k \in DOMAIN jiraIssues : Denotes(jiraIssues[k].ghid) = id}

\* The calls of the current pass made for the processing recorded in h.
CallsOf(h, op) == {k \in h.first..h.last : calls[k].op = op}

\* C1: a source issue with exactly one target whose GitHub-ID field
\* numerically equals its ID (float64 or string, anywhere in the list) is
\* paired with that target for update and is not sent to creation.
C1_OneMatchIsUpdated ==
    \A k \in DOMAIN handled :
        LET h == handled[k]
        IN Cardinality(Matches(h.src)) = 1 =>
              /\ h.op = "update"
              /\ h.pos \in Matches(h.src)
              /\ CallsOf(h, "CreateIssue") = {}

\* C2: a target whose GitHub-ID field is absent or of the wrong type is never
\* paired with a source issue, and the scan of the source issue goes on to the
\* targets after it instead of ending there.
C2_WrongTypeIsSkipped ==
    \A k \in DOMAIN handled :
        LET h == handled[k]
        IN \A p \in DOMAIN jiraIssues :
              (jiraIssues[p].ghid.t # "float64" /\ p <= h.scanned) =>
                  /\ h.pos # p
                  /\ (p < Len(jiraIssues) => h.scanned > p)

\* C3: a source issue for which no target of the list has a GitHub-ID field
\* equal to its ID is sent to creation exactly once and is never paired for
\* update.
C3_NoMatchIsCreated ==
    \A k \in DOMAIN handled :
        LET h == handled[k]
        IN Matches(h.src) = {} =>
              /\ h.op = "create"
              /\ h.pos = 0
              /\ Cardinality(CallsOf(h, "CreateIssue")) = 1
              /\ Cardinality({c \in DOMAIN calls : calls[c].op = "CreateIssue"
                                                   /\ calls[c].src = h.src}) = 1
              /\ {c \in DOMAIN calls : calls[c].op = "UpdateIssue"
                                       /\ calls[c].src = h.src} = {}

\* Witness of C3: an unmatched source issue was processed while the target
\* list held issues of other GitHub IDs.
C3_Witness ==
    \E k \in DOMAIN handled :
        /\ Matches(handled[k].src) = {}
        /\ Len(jiraIssues) > 0
        /\ handled[k].op = "create"

----------------------------------------------------------------------------
\* Properties of the field differ and of the update it drives.

\* Every hyphen-normalized label of the source has its counterpart in the
\* label array of the target.
IsNormalized(label, ghLabel) ==
    /\ Len(label) = Len(ghLabel)
    /\ \A k \in DOMAIN label :
          label[k] = (IF ghLabel[k] = " " THEN "-" ELSE ghLabel[k])

LabelsEqual(gh, j) ==
    /\ j.labels.t \in {"[]string", "[]interface{}"}
    /\ \A k \in DOMAIN gh.labels :
          \E m \in DOMAIN j.labels.l : IsNormalized(j.labels.l[m], gh.labels[k])

FieldsEqual(gh, j) ==
    /\ gh.title = j.summary
    /\ gh.body = j.description
    /\ j.status.t = "string" /\ j.status.s = gh.state
    /\ j.reporter.t = "string" /\ j.reporter.s = gh.login
    /\ (Len(gh.labels) > 0 => LabelsEqual(gh, j))

Updates == {k \in DOMAIN handled : handled[k].op = "update"}

\* C4: Changed(source, target) is false if and only if title, body, status,
\* reporter and, when the source has labels, every hyphen-normalized label
\* equal their counterparts of the target.
C4_ChangedIffFieldsDiffer ==
    \A k \in Updates :
        LET h == handled[k]
        IN h.changed = ~FieldsEqual(ghIssues[h.i], jiraIssues[h.pos])

\* C5: when the differ reports a change, the one update submitted for the
\* target carries every tracked field of the source issue (summary,
\* description, status, reporter, hyphen-normalized labels) and a sync
\* timestamp set to the current time (the time of the pass, while the pass
\* is running).
C5_UpdateIsFullOverwrite ==
    pc = "loop" => \A k \in Updates :
        LET h == handled[k]
            gh == ghIssues[h.i]
        IN h.changed =>
              /\ Cardinality(CallsOf(h, "UpdateIssue")) = 1
              /\ \A c \in CallsOf(h, "UpdateIssue") :
                    LET f == calls[c].payload
                    IN /\ calls[c].key = jiraIssues[h.pos].key
                       /\ {"summary", "description", "status", "reporter", "labels",
                           "lastSync"} \subseteq DOMAIN f
                       /\ f.summary = gh.title
                       /\ f.description = gh.body
                       /\ f.status.t = "string" /\ f.status.s = gh.state
                       /\ f.reporter.t = "string" /\ f.reporter.s = gh.login
                       /\ Len(f.labels.l) = Len(gh.labels)
                       /\ \A m \in DOMAIN gh.labels :
                             IsNormalized(f.labels.l[m], gh.labels[m])
                       /\ f.lastSync = now

\* Witness of C5: an update was submitted for a pair of which only the
\* description differed, and the source issue has a label with a space.
C5_Witness ==
    \E k \in Updates :
        LET h == handled[k]
            gh == ghIssues[h.i]
            j == jiraIssues[h.pos]
        IN /\ h.changed
           /\ gh.title = j.summary /\ gh.body # j.description
           /\ j.status = Str(gh.state) /\ j.reporter = Str(gh.login)
           /\ LabelAB \in SeqToSet(gh.labels)
           /\ CallsOf(h, "UpdateIssue") # {}

\* C6: for an update pair on which the differ reports no change, no
\* issue-update request is sent for the target.
C6_UnchangedIsNotWritten ==
    \A k \in Updates :
        LET h == handled[k]
        IN ~h.changed =>
              /\ CallsOf(h, "UpdateIssue") = {}
              /\ \A c \in DOMAIN calls :
                    calls[c].op = "UpdateIssue" => calls[c].src # h.src

\* Witness of C6: an unchanged pair was processed to the end.
C6_Witness ==
    \E k \in Updates :
        /\ ~handled[k].changed
        /\ handled[k].err = ""
        /\ CallsOf(handled[k], "GetIssue") # {}

\* C19: when the status field or the reporter field of the Jira issue is
\* absent or is not a string, the differ reports a change, so that the update
\* is sent, and nothing fails or stops on account of the field.
C19_UnreadableFieldForcesUpdate ==
    \A k \in Updates :
        LET h == handled[k]
            j == jiraIssues[h.pos]
        IN (j.status.t # "string" \/ j.reporter.t # "string") =>
              /\ h.changed
              /\ Cardinality(CallsOf(h, "UpdateIssue")) = 1
              /\ ~h.crashed
              /\ (\A c \in h.first..h.last : calls[c].ok) => h.err = ""

\* Witness of C19: an update was sent for a pair that differs in nothing but
\* an unreadable status or reporter field.
C19_Witness ==
    \E k \in Updates :
        LET h == handled[k]
            gh == ghIssues[h.i]
            j == jiraIssues[h.pos]
        IN /\ gh.title = j.summary /\ gh.body = j.description
           /\ j.status \in {Missing, Num(1)} /\ j.reporter = Str(gh.login)
           /\ \E c \in CallsOf(h, "UpdateIssue") : calls[c].ok
           /\ h.err = ""

\* C20: for a GitHub issue without labels whose title, body, status and
\* reporter equal those of the Jira issue, the differ reports no change,
\* whatever labels the Jira issue carries.
C20_NoSourceLabelsNoChange ==
    \A k \in Updates :
        LET h == handled[k]
            gh == ghIssues[h.i]
            j == jiraIssues[h.pos]
        IN (/\ Len(gh.labels) = 0
            /\ gh.title = j.summary /\ gh.body = j.description
            /\ j.status = Str(gh.state) /\ j.reporter = Str(gh.login)) =>
              /\ ~h.changed
              /\ CallsOf(h, "UpdateIssue") = {}

\* Witness of C20: such a pair was processed whose Jira issue carries labels.
C20_Witness ==
    \E k \in Updates :
        LET h == handled[k]
            gh == ghIssues[h.i]
            j == jiraIssues[h.pos]
        IN /\ Len(gh.labels) = 0
           /\ gh.title = j.summary /\ gh.body = j.description
           /\ j.status = Str(gh.state) /\ j.reporter = Str(gh.login)
           /\ j.labels = Strs(<<LabelAhB, LabelC>>)
           /\ ~h.changed
           /\ CallsOf(h, "GetIssue") # {}

----------------------------------------------------------------------------
\* Properties of the pass.

\* The Jira key of the target the processing recorded in h worked on: the
\* paired target of an update, the issue Jira made for a creation.
TargetKey(h) ==
    IF h.op = "update" THEN jiraIssues[h.pos].key
    ELSE LET made == {calls[c].key : c \in CallsOf(h, "CreateIssue")}
         IN IF made = {} THEN 0 ELSE CHOOSE key \in made : TRUE

Refetched(h) == \E c \in CallsOf(h, "GetIssue") : calls[c].ok

\* C7: for every source issue whose create or update call and whose re-fetch
\* succeed, the comment reconciler is run exactly once, against the
\* re-fetched target, after a creation and for an update pair alike, whether
\* or not the differ reported a change.
C7_CommentsAlwaysReconciled ==
    \A k \in DOMAIN handled :
        LET h == handled[k]
        IN Refetched(h) =>
              /\ h.recon = <<TargetKey(h)>>
              /\ \A c \in CallsOf(h, "GetIssue") : calls[c].key = TargetKey(h)

\* Witness of C7: the comments of an unchanged update pair were reconciled.
C7_Witness ==
    \E k \in Updates :
        /\ ~handled[k].changed
        /\ Refetched(handled[k])
        /\ Len(handled[k].recon) = 1
        /\ CallsOf(handled[k], "AddComment") # {}

\* C8: the GitHub-ID field of a target is written only by the creation of
\* the target: no step of any pass changes the field of an existing target,
\* and no update request carries the field.
C8_GitHubIDWrittenOnce ==
    [][/\ \A k \in DOMAIN store : k \in DOMAIN store' /\ store'[k].ghid = store[k].ghid
       /\ \A c \in DOMAIN calls' :
             calls'[c].op = "UpdateIssue" => "ghid" \notin DOMAIN calls'[c].payload]_vars

\* Witness of C8: in a second pass an update was applied to a target.
C8_Witness ==
    /\ pass = 2
    /\ \E c \in DOMAIN calls : calls[c].op = "UpdateIssue" /\ calls[c].ok
    /\ \E k \in DOMAIN store : store[k].lastSync = now /\ store[k].ghid = Num(1)

\* RootCmd's loop is outside Compare: no pass is running.
Returned == {"sleep", "idle", "exited"}

\* The processing recorded in h ended in a failure.
Failure(h) == h.err # "" \/ h.crashed

\* C9: a failure while creating, updating, fetching or comment-reconciling
\* one source issue ends the processing of that issue only: the loop goes on
\* to the next source issue, the pass ends having processed every source
\* issue, and the pass returns no error.
C9_FailureIsIsolated ==
    \A k \in DOMAIN handled :
        Failure(handled[k]) =>
            /\ pc \in {"loop"} \cup Returned
            /\ idx > handled[k].i
            /\ passErr \in {"running", "nil"}
            /\ (pc \in Returned => Len(handled) = Len(ghIssues))

ListingErrors == {"listing GitHub issues", "listing Jira issues"}

WriteOps == {"CreateIssue", "UpdateIssue", "AddComment", "PutComment"}

\* C10: when listing the GitHub issues or listing the Jira issues fails, the
\* pass ends with that error returned, no source issue is processed, and no
\* Jira issue or comment is created or updated in the pass.
C10_ListingFailureIsFatal ==
    /\ (\E c \in DOMAIN calls :
           calls[c].op \in {"ListGitHubIssues", "ListJiraIssues"} /\ ~calls[c].ok)
       => passErr \in ListingErrors
    /\ passErr \in ListingErrors =>
          /\ pc \in Returned
          /\ handled = <<>>
          /\ \A c \in DOMAIN calls : calls[c].op \notin WriteOps
          /\ ~calls[Len(calls)].ok
          /\ calls[Len(calls)].op =
                (IF passErr = "listing GitHub issues" THEN "ListGitHubIssues"
                 ELSE "ListJiraIssues")

\* Witness of C10: the second pass failed to list the Jira issues after the
\* first pass had created an issue.
C10_Witness ==
    /\ passErr = "listing Jira issues"
    /\ pass = 2
    /\ \E k \in DOMAIN store : store[k].lastSync = 1

----------------------------------------------------------------------------
\* Properties of the comment reconciler.

\* The body begins with "Comment [(ID <digits>)|".
BeginsWithHeader(body) ==
    LET h == body.head
    IN /\ Len(h) >= 3
       /\ h[1] = LitID
       /\ \E e \in 3..Len(h) : h[e] = LitIDEnd /\ \A k \in 2..(e - 1) : IsDigit(h[k])

\* The body begins with the header of the comment of that ID.
HeaderIDIs(body, id) ==
    /\ jCommentIDRegex(body).ok
    /\ Atoi(jCommentIDRegex(body).digits) = [ok |-> TRUE, n |-> Digits(id)]

\* The first Jira comment of jComments with the header of comment c, 0 when
\* there is none.
FirstWithHeader(c, jComments) ==
    LET with == {j \in DOMAIN jComments : HeaderIDIs(jComments[j].body, c.id)}
    IN IF with = {} THEN 0 ELSE CHOOSE j \in with : \A m \in with : j <= m

\* The runs of Compare made for the source issues of the current pass.
Comparisons == {handled[k].cmp[1] : k \in {m \in DOMAIN handled : handled[m].cmp # <<>>}}

\* C11: when Compare returns its two lists, every source comment is in
\* exactly one of them: the comments that have a Jira comment with their
\* header ID are the update list, in input order, each paired with the first
\* such Jira comment; the others are the create list, in input order.
C11_CompareSplitsInOrder ==
    \A r \in Comparisons :
        r.res.err = "" =>
            LET matched == SelectSeq(r.ghComments,
                               LAMBDA c : FirstWithHeader(c, r.jiraComments) # 0)
            IN /\ r.res.ShouldCreate =
                     SelectSeq(r.ghComments,
                         LAMBDA c : FirstWithHeader(c, r.jiraComments) = 0)
               /\ r.res.ShouldUpdate =
                     [i \in DOMAIN matched |->
                         [GhComment |-> matched[i],
                          JiraComment |->
                              r.jiraComments[FirstWithHeader(matched[i], r.jiraComments)]]]
               /\ Len(r.res.ShouldCreate) + Len(r.res.ShouldUpdate) = Len(r.ghComments)

\* Witness of C11: of two source comments one was paired with the first of
\* two Jira comments carrying its ID, the other was put on the create list.
C11_Witness ==
    \E r \in Comparisons :
        /\ r.res.err = ""
        /\ Len(r.ghComments) = 2 /\ r.ghComments[1].id # r.ghComments[2].id
        /\ Len(r.res.ShouldCreate) = 1 /\ Len(r.res.ShouldUpdate) = 1
        /\ Len(r.jiraComments) = 2
        /\ \A j \in 1..2 : HeaderIDIs(r.jiraComments[j].body, r.res.ShouldUpdate[1].GhComment.id)
        /\ r.res.ShouldUpdate[1].JiraComment = r.jiraComments[1]

\* C12: a Jira comment whose body does not begin with the header prefix
\* "Comment [(ID <digits>)|" is never the update target of a source comment,
\* also when the header of that comment's ID stands further on in its body.
C12_UnheadedNeverMatched ==
    \A r \in Comparisons :
        \A i \in DOMAIN r.res.ShouldUpdate :
            BeginsWithHeader(r.res.ShouldUpdate[i].JiraComment.body)

\* Witness of C12: a source comment whose only Jira comment quotes its header
\* behind other text was put on the create list.
C12_Witness ==
    \E r \in Comparisons :
        /\ r.res.err = ""
        /\ Len(r.jiraComments) > 0
        /\ \A j \in DOMAIN r.jiraComments :
              /\ ~BeginsWithHeader(r.jiraComments[j].body)
              /\ jCommentIDRegexAnywhere(r.jiraComments[j].body).ok
        /\ r.res.ShouldUpdate = <<>>
        /\ \E i \in DOMAIN r.res.ShouldCreate : r.res.ShouldCreate[i].id = 11

\* The processings of the current pass that compared comments and got the
\* two lists.
Compared == {k \in DOMAIN handled : handled[k].cmp # <<>> /\ handled[k].cmp[1].res.err = ""}

Pairs(h) == h.cmp[1].res.ShouldUpdate

\* The Jira comment of the pair matches the full header pattern.
WellFormed(pair) == jCommentRegex(pair.JiraComment.body).ok

\* The body of the Jira comment behind its header is the body of the GitHub
\* comment.
SameBody(pair) == jCommentRegex(pair.JiraComment.body).body = pair.GhComment.body

\* The PUT requests of the processing h sent for the pair.
PutsFor(h, pair) ==
    {c \in CallsOf(h, "PutComment") :
        /\ calls[c].payload.id = pair.JiraComment.id
        /\ calls[c].payload.body = FormatBody(pair.GhComment)}

\* C13: for a matched pair whose Jira body, its header removed, equals the
\* current body of the GitHub comment, no comment-update request is sent.
C13_EqualBodyIsNotWritten ==
    \A k \in Compared :
        \A i \in DOMAIN Pairs(handled[k]) :
            LET pair == Pairs(handled[k])[i]
            IN (WellFormed(pair) /\ SameBody(pair)) => PutsFor(handled[k], pair) = {}

\* Witness of C13: the update decision of a pair of equal bodies was taken
\* and the reconciliation returned without error.
C13_Witness ==
    \E k \in Compared :
        /\ handled[k].err = "" /\ ~handled[k].crashed
        /\ Pairs(handled[k]) # <<>>
        /\ \A i \in DOMAIN Pairs(handled[k]) :
              WellFormed(Pairs(handled[k])[i]) /\ SameBody(Pairs(handled[k])[i])

\* The update decision of the i-th pair was reached without a failure
\* before it: every create went through, no call failed, no earlier pair
\* needed an update or stopped the process.
Reached(h, i) ==
    /\ ~(\E c \in h.first..h.last : ~calls[c].ok)
    /\ Cardinality({c \in CallsOf(h, "AddComment") : calls[c].ok}) =
          Len(h.cmp[1].res.ShouldCreate)
    /\ \A j \in 1..(i - 1) : WellFormed(Pairs(h)[j])

\* C14: for a matched pair whose extracted body differs from the current
\* body of the GitHub comment, exactly one update is issued; it is addressed
\* to the ID of the matched Jira comment and its body is the freshly
\* formatted header followed by the current body of the GitHub comment.
C14_ChangedBodyIsUpdatedOnce ==
    \A k \in Compared :
        \A i \in DOMAIN Pairs(handled[k]) :
            LET h == handled[k]
                pair == Pairs(h)[i]
            IN (Reached(h, i) /\ WellFormed(pair) /\ ~SameBody(pair)) =>
                  /\ Cardinality(PutsFor(h, pair)) = 1
                  /\ \A c \in CallsOf(h, "PutComment") :
                        \E j \in DOMAIN Pairs(h) : c \in PutsFor(h, Pairs(h)[j])

\* C16: when the Jira comment of a matched pair passes the ID pattern but
\* its body does not match the full header pattern, the update decision
\* returns an error: the process does not crash and no comment write is sent
\* for the pair.
C16_MalformedHeaderIsError ==
    \A k \in Compared :
        \A i \in DOMAIN Pairs(handled[k]) :
            LET h == handled[k]
                pair == Pairs(h)[i]
            IN (Reached(h, i) /\ CallsOf(h, "PutComment") = {} /\ ~WellFormed(pair)) =>
                  /\ ~h.crashed
                  /\ pc # "crashed"
                  /\ h.err # ""
                  /\ \A c \in CallsOf(h, "PutComment") :
                        calls[c].payload.id # pair.JiraComment.id

\* The Jira comment has an ID-shaped header whose digits are no int.
Unconvertible(jComment) ==
    /\ BeginsWithHeader(jComment.body)
    /\ ~Atoi(jCommentIDRegex(jComment.body).digits).ok

CommentWrites(h) == CallsOf(h, "AddComment") \cup CallsOf(h, "PutComment")

\* C17 as stated: whenever a Jira comment of the issue has an ID-shaped
\* header whose digits cannot be converted, the comparison returns an error
\* and no comment is created or updated.
C17_AnyUnconvertibleIsError ==
    \A k \in DOMAIN handled :
        \A n \in DOMAIN handled[k].cmp :
            LET r == handled[k].cmp[n]
            IN (\E j \in DOMAIN r.jiraComments : Unconvertible(r.jiraComments[j])) =>
                  /\ r.res.err # ""
                  /\ CommentWrites(handled[k]) = {}

\* The scan of Compare for some source comment comes to an unconvertible
\* header: no Jira comment before it carries the ID of that source comment.
ScanMeets(r) ==
    \E i \in DOMAIN r.ghComments :
        \E j \in DOMAIN r.jiraComments :
            /\ Unconvertible(r.jiraComments[j])
            /\ \A m \in 1..(j - 1) : ~HeaderIDIs(r.jiraComments[m].body, r.ghComments[i].id)

\* C17: when the scan for a source comment comes to a Jira comment with an
\* ID-shaped header whose digits cannot be converted, Compare returns an
\* error, the comment reconciliation of the issue ends with that error and
\* no comment is created or updated.
C17_UnconvertibleMetIsError ==
    \A k \in DOMAIN handled :
        \A n \in DOMAIN handled[k].cmp :
            LET r == handled[k].cmp[n]
            IN ScanMeets(r) =>
                  /\ r.res.err # ""
                  /\ r.res.ShouldCreate = <<>> /\ r.res.ShouldUpdate = <<>>
                  /\ handled[k].err = "comparing comments for issue"
                  /\ CommentWrites(handled[k]) = {}

\* Witness of C17: the comparison failed on an unconvertible header that
\* stands behind a well-formed comment of another ID.
C17_Witness ==
    \E k \in DOMAIN handled :
        /\ handled[k].cmp # <<>>
        /\ handled[k].cmp[1].res.err # ""
        /\ Len(handled[k].cmp[1].jiraComments) = 2
        /\ Unconvertible(handled[k].cmp[1].jiraComments[2])
        /\ handled[k].err # ""

----------------------------------------------------------------------------
\* Properties of the comment header.

\* The comment bodies the current pass sent to Jira, each with the GitHub
\* comment it was formatted for.
Sent ==
    {<<c, i, m>> \in (DOMAIN calls) \X (DOMAIN ghIssues) \X (1..(MaxComments + 1)) :
        /\ calls[c].op \in {"AddComment", "PutComment"}
        /\ ghIssues[i].id = calls[c].src
        /\ m \in DOMAIN ghIssues[i].comments
        /\ calls[c].payload.body = FormatBody(ghIssues[i].comments[m])}

\* C15: the body the header formatter produces for a GitHub comment, of any
\* login, display name (the empty one included) and body text, is decomposed
\* by the header pattern into the ID, the login and the body of that comment.
C15_HeaderRoundTrip ==
    \A x \in Sent :
        LET comment == ghIssues[x[2]].comments[x[3]]
            fields == jCommentRegex(calls[x[1]].payload.body)
        IN /\ fields.ok
           /\ Atoi(fields.id) = [ok |-> TRUE, n |-> Digits(comment.id)]
           /\ fields.login = <<comment.login>>
           /\ fields.body = comment.body

\* The ceiling of a Jira comment body, 2^15-1.
JiraBodyCeiling == 32767

IsPrefix(a, b) == Len(a) <= Len(b) /\ SubSeq(b, 1, Len(a)) = a

\* C18: every comment body CreateComment or UpdateComment sends to Jira is
\* at most 32767 long; of a formatted text that is longer the header is kept
\* whole and only the tail is cut off.
C18_BodyWithinCeiling ==
    \A x \in Sent :
        LET comment == ghIssues[x[2]].comments[x[3]]
            sent == calls[x[1]].payload.body
        IN /\ ByteLen(sent) <= JiraBodyCeiling
           /\ IsPrefix(HeaderOf(comment), sent.head)
           /\ IsPrefix(sent.head, HeaderOf(comment) \o comment.body.head)
           /\ sent.fill <= comment.body.fill

----------------------------------------------------------------------------
\* Properties of the order of the calls.

\* The positions, in the listing of the GitHub issue, of the comments whose
\* formatted body the call c sent.
SourcePositions(h, c) ==
    {m \in DOMAIN ghIssues[h.i].comments :
        calls[c].payload.body = FormatBody(ghIssues[h.i].comments[m])}

\* C21: within the comment reconciliation of one issue the comment writes,
\* creates and updates alike, are sent in the order in which the GitHub
\* comments were listed.
C21_WritesInListingOrder ==
    \A k \in DOMAIN handled :
        LET h == handled[k]
        IN \A c1, c2 \in CommentWrites(h) :
              c1 < c2 => \E m1 \in SourcePositions(h, c1), m2 \in SourcePositions(h, c2) :
                            m1 < m2

\* The calls of the pass made on behalf of a source issue.
IssueCalls == {c \in DOMAIN calls : calls[c].src # 0}

\* The position in the GitHub list of the issue the call c was made for.
IssueOf(c) == CHOOSE i \in DOMAIN ghIssues : ghIssues[i].id = calls[c].src

\* C22: the calls made for one source issue, its comment writes included,
\* all come before the first call made for the next source issue; the calls
\* of different issues never interleave.
C22_IssuesDoNotInterleave ==
    /\ \A c1, c2 \in IssueCalls : c1 < c2 => IssueOf(c1) <= IssueOf(c2)
    /\ \A k \in DOMAIN handled :
          \A c \in handled[k].first..handled[k].last : calls[c].src = handled[k].src

\* Witness of C22: the first issue of a pass had a comment written, and calls
\* were then made for the second issue.
C22_Witness ==
    /\ Len(handled) = 2
    /\ \E c \in CallsOf(handled[1], "AddComment") : calls[c].ok
    /\ \E c \in CallsOf(handled[2], "GetIssue") : calls[c].ok

----------------------------------------------------------------------------
\* Properties of the clients and of the comment reconciler's short cut.

\* C24: when the PUT of a comment update succeeds, the client's UpdateComment
\* returns the comment and a nil error, so that a step all of whose calls
\* succeeded ends without error.
C24_PutSucceededReturnsNil ==
    \A k \in DOMAIN handled :
        LET h == handled[k]
        IN (/\ \E c \in CallsOf(h, "PutComment") : calls[c].ok
            /\ \A c \in h.first..h.last : calls[c].ok
            /\ ~h.crashed) => h.err = ""

\* The calls the comment reconciler makes, on GitHub and on Jira.
ReconcilerOps == {"ListComments", "GetUser", "AddComment", "PutComment"}

\* C28: the comment reconciliation of a GitHub issue without comments returns
\* nil at once: it does not list the comments and calls neither GitHub nor
\* Jira.
C28_NoCommentsNoCalls ==
    \A k \in DOMAIN handled :
        LET h == handled[k]
        IN (Len(ghIssues[h.i].comments) = 0 /\ h.recon # <<>>) =>
              /\ \A c \in h.first..h.last : calls[c].op \notin ReconcilerOps
              /\ calls[h.last].op = "GetIssue"
              /\ h.cmp = <<>>
              /\ h.err = ""

\* Witness of C28: the reconciler was run for an issue without comments whose
\* Jira issue carries comments.
C28_Witness ==
    \E k \in DOMAIN handled :
        LET h == handled[k]
        IN /\ Len(ghIssues[h.i].comments) = 0
           /\ h.recon # <<>>
           /\ Len(store[h.recon[1]].comments) > 0
           /\ h.err = ""

----------------------------------------------------------------------------
\* Properties of the command loop.

\* C23: as a daemon the command has at most one pass in progress: a pass
\* starts only when the loop is outside Compare, the pass before it has
\* returned, and the period has elapsed since then; a single run starts no
\* second pass.
C23_OnePassAtATime ==
    [][pass' # pass =>
          /\ pc = "idle"
          /\ passErr # "running"
          /\ (pass > 0 => (IsDaemon /\ now >= timer))]_vars

\* Witness of C23: the daemon is in its second pass, which began after the
\* timer of the first had fired.
C23_Witness ==
    /\ IsDaemon
    /\ pass = 2
    /\ pc = "loop"
    /\ now > timer
    /\ timer > Period

\* C27: without --confirm (a dry run) no request that creates or updates a
\* Jira issue or a Jira comment is sent during a pass; such requests are
\* sent only with --confirm.
C27_DryRunSendsNoWrite ==
    dryRun => \A c \in DOMAIN calls : calls[c].op \notin WriteOps

\* Witness of C27: in a dry run an issue was processed, without error, whose
\* fields had changed and one of whose comments had no Jira comment yet.
C27_Witness ==
    /\ dryRun
    /\ \E k \in Updates :
          LET h == handled[k]
          IN /\ h.changed
             /\ h.err = ""
             /\ Len(h.cmp) = 1
             /\ Len(h.cmp[1].res.ShouldCreate) > 0
             /\ CallsOf(h, "GetUser") # {}

\* C30: the `since` parameter of the configuration file is advanced only
\* after a pass that succeeded in full: a pass that returned an error, or in
\* which the processing of some issue failed, leaves it as it was.
C30_SinceAdvancedOnSuccessOnly ==
    [][(pass' # pass \/ pc' \in Returned) /\ ~clean' => since' = since]_vars

\* The write requests of the pass.
Writes == {c \in DOMAIN calls : calls[c].op \in WriteOps}

\* C29: after a pass that succeeded in full, the next pass over the same
\* GitHub issues and comments sends no create and no update request to Jira.
C29_SecondPassSendsNothing ==
    (pass >= 2 /\ pc = "loop" /\ clean) => Writes = {}

----------------------------------------------------------------------------
\* Properties of the listing of the Jira issues.

\* The GitHub-ID field of the target is one of the candidate IDs.
IsCandidate(v) == \E i \in DOMAIN ghIssues : Denotes(v.ghid) = ghIssues[i].id

\* C26: ListIssues returns exactly the issues of the project whose GitHub-ID
\* field is one of the candidate IDs, whether the IDs are embedded in the
\* query or the whole project is fetched and filtered by the client.
C26_ListIssuesIsExact ==
    pc = "loop" => jiraIssues = SelectSeq(store, IsCandidate)

----------------------------------------------------------------------------
\* Properties of the request wrappers.

\* C25: a request wrapper returns what the wrapped call returned and a nil
\* error if and only if the call succeeded before the timeout; when the call
\* failed until the timeout was reached the wrapper returns an error.
C25_WrapperReturnsOutcome ==
    retry.phase = "returned" =>
       /\ (retry.out.err = Nil) <=> (retry.err = Nil)
       /\ retry.err = Nil => retry.out.ret = retry.ret
====
